---- MODULE Spec2Model ----
(***************************************************************************)
(* A model of the SimploVoice turn pipeline: the pattern-based NLU         *)
(* (nlu_processor.py), the rule-based response generator                   *)
(* (response_generator.py), the room / FAQ / query-log store (database.py) *)
(* and the orchestrator with its optional language-model path (brain.py).  *)
(*                                                                         *)
(* Text.  A text is a sequence of tokens.  A token is a word, a           *)
(* punctuation mark ("?", "!") or a run of whitespace (" ").  Neighbouring *)
(* tokens are separated by one blank, so `\s+` and a literal blank in a    *)
(* regular expression both mean "the next token".  Whitespace tokens occur *)
(* only at the two ends of an input (that is what strip() is about).       *)
(* A regular expression of the source is translated to a predicate on the  *)
(* token sequence: \b(a|b)\b is "some token is a or b", X.*Y is "X, and Y  *)
(* in a later token", a missing \b lets a token match by its prefix or     *)
(* suffix (Prefixes, Suffixes).                                            *)
(*                                                                         *)
(* Money.  Rates are REAL columns; the model counts them in halves of a    *)
(* currency unit (10000 is 5000.0), so that the rounding of the price      *)
(* format is part of the model.                                            *)
(***************************************************************************)
EXTENDS Integers, Sequences, FiniteSets, TLC

(***************************************************************************)
(* Bounds of the model.                                                    *)
(***************************************************************************)
\* longest generated text, in tokens (the sample sentences are longer)
MaxWords == 2

(***************************************************************************)
(* Sequence helpers.                                                       *)
(***************************************************************************)
Range(s) == {s[i] : i \in DOMAIN s}

RECURSIVE SeqsUpTo(_, _)
SeqsUpTo(S, n) ==
    IF n = 0 THEN {<<>>}
    ELSE LET shorter == SeqsUpTo(S, n - 1)
         IN  shorter \cup {Append(s, x) : s \in {u \in shorter : Len(u) = n - 1}, x \in S}

RECURSIVE Flatten(_)
Flatten(ss) == IF ss = <<>> THEN <<>> ELSE Head(ss) \o Flatten(Tail(ss))

RECURSIVE Gcd(_, _)
Gcd(a, b) == IF b = 0 THEN a ELSE Gcd(b, a % b)

\* a float that is the quotient of two small naturals, in lowest terms: two
\* quotients are the same float exactly when they are the same fraction.
Reduced(n, d, g) == [num |-> n \div g, den |-> d \div g]
Ratio(n, d) == Reduced(n, d, Gcd(n, d))
RatioLess(x, y) == x.num * y.den < y.num * x.den
RatioMin(x, y) == IF RatioLess(y, x) THEN y ELSE x

(***************************************************************************)
(* Tokens.                                                                 *)
(***************************************************************************)
\* the lower-case tokens of the model
Vocab ==
    {"do", "you", "have", "any", "suite", "suites", "available", "?", "!",
     "hello", "hi", "show", "room", "rooms", "how", "much", "is", "the",
     "deluxe", "i", "want", "a", "luxury", "what", "to", "book", "standard",
     "executive", "wifi", "bye", "thanks", "price", "discount", "parking",
     "tonight", "2", "direct", "can", "in", "check", "time", "pets"}

\* tokens written with capitals, with their lower-case form
Capitalised ==
    {<<"Do", "do">>, <<"Hello", "hello">>, <<"How", "how">>, <<"I", "i">>,
     <<"What", "what">>, <<"Is", "is">>, <<"Suite", "suite">>}

Whitespace == " "

\* str.lower() on one token
LowerToken(w) ==
    IF \E c \in Capitalised : c[1] = w
    THEN (CHOOSE c \in Capitalised : c[1] = w)[2]
    ELSE w

\* str.lower() on a text
Lower(text) == [i \in DOMAIN text |-> LowerToken(text[i])]

RECURSIVE LStrip(_)
LStrip(text) ==
    IF text # <<>> /\ Head(text) = Whitespace THEN LStrip(Tail(text)) ELSE text

RECURSIVE RStrip(_)
RStrip(text) ==
    IF text # <<>> /\ text[Len(text)] = Whitespace
    THEN RStrip(SubSeq(text, 1, Len(text) - 1))
    ELSE text

\* str.strip()
Strip(text) == RStrip(LStrip(text))

\* the literals of the pattern tables that are a proper prefix of a token
Prefixes(w) ==
    CASE w = "is" -> {"i"}
      [] w = "in" -> {"i"}
      [] w = "rooms" -> {"room"}
      [] w = "suites" -> {"suite"}
      [] w = "thanks" -> {"thank"}
      [] w = "parking" -> {"park"}
      [] w = "pets" -> {"pet"}
      [] w = "tonight" -> {"to"}
      [] w = "wifi" -> {"wi"}
      [] OTHER -> {}

\* the literals of the pattern tables that are a proper suffix of a token
Suffixes(w) ==
    CASE w = "show" -> {"how"}
      [] w = "hi" -> {"i"}
      [] w = "wifi" -> {"fi", "i"}
      [] w = "time" -> {"me"}
      [] w = "tonight" -> {"night"}
      [] OTHER -> {}

\* the literals of the pattern tables that lie strictly inside a token
Infixes(w) ==
    CASE w = "discount" -> {"is"}
      [] w = "parking" -> {"in"}
      [] OTHER -> {}

\* the token begins with one of A (a literal with \b before it only)
Starts(w, A) == w \in A \/ Prefixes(w) \cap A # {}
\* the token ends with one of A (a literal with \b after it only)
Ends(w, A) == w \in A \/ Suffixes(w) \cap A # {}
\* the token contains one of A (a literal between two .*)
Contains(w, A) ==
    w \in A \/ (Prefixes(w) \cup Suffixes(w) \cup Infixes(w)) \cap A # {}

(***************************************************************************)
(* Regular expressions on token sequences.  P is a sequence of sets of     *)
(* literals: one set per token of the phrase.                              *)
(***************************************************************************)
InText(t, i, P) == i >= 1 /\ i + Len(P) - 1 <= Len(t)

\* \bP\b at token i
At(t, i, P) ==
    InText(t, i, P) /\ \A k \in DOMAIN P : t[i + k - 1] \in P[k]

\* \bP at token i: the last token of the phrase may go on
HeadAt(t, i, P) ==
    /\ InText(t, i, P)
    /\ \A k \in 1..(Len(P) - 1) : t[i + k - 1] \in P[k]
    /\ Starts(t[i + Len(P) - 1], P[Len(P)])

\* P\b at token j: the first token of the phrase may have begun earlier
TailAt(t, j, P) ==
    /\ InText(t, j, P)
    /\ Ends(t[j], P[1])
    /\ \A k \in 2..Len(P) : t[j + k - 1] \in P[k]

\* \b(a|b)\b
Word(t, A) == \E i \in DOMAIN t : t[i] \in A
\* \bP\b
Phrase(t, P) == \E i \in DOMAIN t : At(t, i, P)
\* \bX.*Y\b
Then(t, X, Y) ==
    \E i, j \in DOMAIN t : HeadAt(t, i, X) /\ j >= i + Len(X) /\ TailAt(t, j, Y)
\* \bX.*M.*Y\b
Then3(t, X, M, Y) ==
    \E i, j, k \in DOMAIN t :
        /\ HeadAt(t, i, X)
        /\ j >= i + Len(X) /\ Contains(t[j], M)
        /\ k > j /\ TailAt(t, k, Y)

(***************************************************************************)
(* nlu_processor.py: the pattern tables.  Each operator gives, for a       *)
(* lower-cased and stripped text, whether each regular expression of one   *)
(* intent is found in it (re.search), in the order of the table.           *)
(***************************************************************************)
RoomWords == {"room", "rooms"}
PriceWords == {"price", "cost", "rate"}

GREETING_patterns(t) ==
    << \/ Word(t, {"hello", "hi", "hey", "greetings", "hola", "namaste"})
       \/ Phrase(t, <<{"good"}, {"morning", "afternoon", "evening"}>>),
       /\ t # <<>>
       /\ t[1] \in {"hi", "hello", "hey"}
       /\ \A i \in 2..Len(t) : t[i] \in {"!", Whitespace} >>

GOODBYE_patterns(t) ==
    << \/ Word(t, {"bye", "goodbye", "thankyou", "thanks", "thnx", "cheers"})
       \/ Phrase(t, <<{"see"}, {"you"}>>)
       \/ Phrase(t, <<{"take"}, {"care"}>>)
       \/ Phrase(t, <<{"have"}, {"a"}, {"good"}>>)
       \/ Phrase(t, <<{"thank"}, {"you"}>>),
       \/ Word(t, {"bye", "cya", "later", "thank"})
       \/ Phrase(t, <<{"see"}, {"ya"}>>) >>

QUERY_ROOMS_patterns(t) ==
    << Then(t, <<{"what", "which", "show", "list", "tell", "display"}>>,
               <<RoomWords \cup {"type", "types", "option", "options",
                                 "accommodation", "accommodations"}>>),
       Then(t, <<{"available", "have"}>>,
               <<RoomWords \cup {"suite", "suites", "accommodation", "accommodations"}>>),
       \/ Phrase(t, <<RoomWords, {"available", "type", "types"}>>)
       \/ Phrase(t, <<RoomWords, {"do"}, {"you"}, {"have"}>>),
       Then(t, <<{"show", "tell", "describe"}>>,
               <<RoomWords \cup {"option", "options"}>>),
       \/ Then(t, <<{"i"}, {"want"}, {"to"}, {"see"}>>, <<RoomWords \cup {"option", "options"}>>)
       \/ Then(t, <<{"looking"}, {"for"}>>, <<RoomWords \cup {"option", "options"}>>),
       Then(t, <<{"what"}, {"kind", "type", "types"}>>,
               <<RoomWords \cup {"accommodation", "accommodations"}>>) >>

QUERY_PRICES_patterns(t) ==
    << \/ Then(t, <<{"what"}>>, <<PriceWords \cup {"charge", "tariff", "fee"}>>)
       \/ Then(t, <<{"how"}, {"much"}>>, <<PriceWords \cup {"charge", "tariff", "fee"}>>)
       \/ Then(t, <<{"tell"}, {"me"}>>, <<PriceWords \cup {"charge", "tariff", "fee"}>>),
       Then(t, <<PriceWords \cup {"charge", "tariff"}>>,
               <<{"room", "deluxe", "suite", "standard", "night"}>>),
       Phrase(t, <<{"how"}, {"much"}, {"is", "are", "does", "do", "for", "per"}>>),
       \/ Then(t, <<{"what's", "whats"}>>, <<PriceWords>>)
       \/ Then(t, <<{"what"}, {"is"}>>, <<PriceWords>>),
       \/ Phrase(t, <<{"how"}, {"expensive", "costly"}>>)
       \/ Word(t, {"pricing", "rate", "rates"}),
       Then(t, <<{"can"}, {"you"}, {"tell"}>>, <<PriceWords>>) >>

CHECK_AVAILABILITY_patterns(t) ==
    << Then(t, <<{"available", "availability", "vacant", "free", "open"}>>,
               <<{"room", "tonight", "today", "tomorrow"}>>),
       \/ Phrase(t, <<{"do"}, {"you"}, {"have"},
                      RoomWords \cup {"deluxe", "suite", "standard", "vacancy"}>>)
       \/ Phrase(t, <<{"do"}, {"you"}, {"have"}, {"any"},
                      RoomWords \cup {"deluxe", "suite", "standard", "vacancy"}>>),
       Then3(t, <<{"is", "are"}>>, {"room", "deluxe", "suite", "standard"},
                <<{"available", "vacant", "free", "open"}>>),
       Then3(t, <<{"any", "got"}>>, RoomWords \cup {"vacancies", "availability"},
                <<{"available", "free", "left"}>>),
       \/ Then(t, <<{"can"}, {"i"}, {"get"}>>, <<{"room", "vacancy"}>>)
       \/ Then(t, <<{"looking"}, {"for"}>>, <<{"room", "vacancy"}>>) >>

COMPARE_RATES_patterns(t) ==
    << Then(t, <<{"difference", "compare", "comparison", "vs", "versus"}>>, <<PriceWords>>),
       Then(t, <<{"direct", "booking.com", "ota", "online", "makemytrip", "agoda"}>>,
               <<{"rate", "price", "booking", "vs"}>>),
       Word(t, {"cheaper", "discount", "save", "saving", "deal", "offer"}),
       \/ Phrase(t, <<{"book"}, {"direct"}>>)
       \/ Phrase(t, <<{"direct"}, {"booking"}>>),
       \/ Phrase(t, <<{"better"}, {"deal"}>>)
       \/ Phrase(t, <<{"best"}, {"price"}>>)
       \/ Phrase(t, <<{"lowest"}, {"rate"}>>) >>

BOOK_ROOM_patterns(t) ==
    << \/ Word(t, {"book", "reserve", "reservation"})
       \/ Phrase(t, <<{"make"}, {"a"}, {"booking"}>>),
       \/ Phrase(t, <<{"i"}, {"want"}, {"to"}, {"book", "reserve"}>>)
       \/ Phrase(t, <<{"i"}, {"want"}, {"a"}, {"room"}>>),
       \/ Then(t, <<{"can"}, {"i"}>>, <<{"book", "reserve"}>>)
       \/ Then(t, <<{"how"}, {"to"}>>, <<{"book", "reserve"}>>)
       \/ Then(t, <<{"how"}, {"do"}, {"i"}>>, <<{"book", "reserve"}>>),
       \/ Phrase(t, <<{"direct"}, {"book"}>>)
       \/ Phrase(t, <<{"book"}, {"direct"}>>)
       \/ Phrase(t, <<{"book"}, {"from"}, {"here"}>>),
       Phrase(t, <<{"need", "want", "get"}, {"a"}, {"room"}>>),
       \/ Then(t, <<{"proceed"}>>, <<{"booking", "reservation"}>>)
       \/ Then(t, <<{"go"}, {"ahead"}>>, <<{"booking", "reservation"}>>) >>

HELP_patterns(t) ==
    << Word(t, {"help", "assist", "support"}),
       \/ Then(t, <<{"what", "when", "where", "how"}>>,
                  <<{"checkin", "check-in", "checkout", "check-out", "time", "hour"}>>)
       \/ Then(t, <<{"what", "when", "where", "how"}>>, <<{"check"}, {"in", "out"}>>),
       \/ Word(t, {"wifi", "internet", "wi-fi", "password"})
       \/ Phrase(t, <<{"wi"}, {"fi"}>>),
       Word(t, {"parking", "park"}),
       Word(t, {"breakfast", "food", "meal", "dining"}),
       Word(t, {"cancel", "cancellation", "refund"}),
       Word(t, {"payment", "pay", "credit", "cash"}),
       Word(t, {"pet", "pets", "dog", "cat", "animal"}),
       Word(t, {"allow", "accept", "permit"}),
       \/ Phrase(t, <<{"do"}, {"you"}, {"have", "offer", "provide"}>>)
       \/ Phrase(t, <<{"is"}, {"there"}>>)
       \/ Phrase(t, <<{"can"}, {"i"}>>)
       \/ Then(t, <<{"are"}>>, <<{"allowed"}>>),
       Word(t, {"policy", "policies", "rule", "rules"}),
       Word(t, {"pickup", "airport", "transport"}) >>

\* class Intent, in the order of its declaration
Intent ==
    <<"QUERY_ROOMS", "QUERY_PRICES", "CHECK_AVAILABILITY", "COMPARE_RATES",
      "BOOK_ROOM", "GREETING", "GOODBYE", "HELP", "UNKNOWN">>

\* the keys of the intent pattern table, in the order of the dict literal
PatternOrder ==
    <<"GREETING", "GOODBYE", "QUERY_ROOMS", "QUERY_PRICES",
      "CHECK_AVAILABILITY", "COMPARE_RATES", "BOOK_ROOM", "HELP">>

\* self.intent_patterns[intent], each pattern replaced by re.search(pattern, t)
intent_patterns(intent, t) ==
    CASE intent = "GREETING" -> GREETING_patterns(t)
      [] intent = "GOODBYE" -> GOODBYE_patterns(t)
      [] intent = "QUERY_ROOMS" -> QUERY_ROOMS_patterns(t)
      [] intent = "QUERY_PRICES" -> QUERY_PRICES_patterns(t)
      [] intent = "CHECK_AVAILABILITY" -> CHECK_AVAILABILITY_patterns(t)
      [] intent = "COMPARE_RATES" -> COMPARE_RATES_patterns(t)
      [] intent = "BOOK_ROOM" -> BOOK_ROOM_patterns(t)
      [] intent = "HELP" -> HELP_patterns(t)

(***************************************************************************)
(* nlu_processor.py: NLUProcessor._recognize_intent                        *)
(***************************************************************************)
RECURSIVE CountTrue(_)
CountTrue(bs) ==
    IF bs = <<>> THEN 0 ELSE (IF Head(bs) THEN 1 ELSE 0) + CountTrue(Tail(bs))

\* score: the number of the intent's patterns found in the text
Score(intent, t) == CountTrue(intent_patterns(intent, t))

\* a test that admits every intent, matched or not
ScoredAlways(score) == score >= 0

\* the test on score that admits an intent to intent_scores
Scored(score) == score > 0

\* a confidence that is 1.0 as soon as one pattern matches
ConfidenceOfCount(intent, t) ==
    RatioMin(Ratio(Score(intent, t), 1), Ratio(1, 1))

\* confidence = min(score / len(patterns), 1.0)
Confidence(intent, t) ==
    RatioMin(Ratio(Score(intent, t), Len(intent_patterns(intent, t))), Ratio(1, 1))

\* the keys of intent_scores, in insertion order: the table's order
ScoredIntents(t) ==
    SelectSeq(PatternOrder, LAMBDA intent : Scored(Score(intent, t)))

\* a maximum that keeps the last of the keys of equal value
RECURSIVE MaxByKeyLast(_, _, _)
MaxByKeyLast(keys, best, t) ==
    IF keys = <<>> THEN best
    ELSE IF RatioLess(Confidence(Head(keys), t), Confidence(best, t))
         THEN MaxByKeyLast(Tail(keys), best, t)
         ELSE MaxByKeyLast(Tail(keys), Head(keys), t)

\* max(keys, key=...): the first key whose value no later key exceeds strictly
RECURSIVE MaxByKey(_, _, _)
MaxByKey(keys, best, t) ==
    IF keys = <<>> THEN best
    ELSE IF RatioLess(Confidence(best, t), Confidence(Head(keys), t))
         THEN MaxByKey(Tail(keys), Head(keys), t)
         ELSE MaxByKey(Tail(keys), best, t)

\* return best_intent, intent_scores[best_intent]
Best(best_intent, t) ==
    [intent |-> best_intent, confidence |-> Confidence(best_intent, t)]

\* a recognizer without the branch for an empty intent_scores: it answers
\* HELP when nothing matched
BestOfHelp(keys, t) ==
    IF keys = <<>>
    THEN [intent |-> "HELP", confidence |-> Ratio(0, 1)]
    ELSE Best(MaxByKey(Tail(keys), Head(keys), t), t)

\* the pair (intent, confidence), given the keys of intent_scores
BestOf(keys, t) ==
    IF keys = <<>>
    THEN [intent |-> "UNKNOWN", confidence |-> Ratio(0, 1)]
    ELSE Best(MaxByKey(Tail(keys), Head(keys), t), t)

recognize_intent(t) == BestOf(ScoredIntents(t), t)

(***************************************************************************)
(* nlu_processor.py: the entity table and NLUProcessor._extract_entities   *)
(***************************************************************************)
NoDefault == "<None>"

\* tokens that are digits only
Digits == {"2"}
\* tokens of the shape d/d/d or d-d-d of the second date pattern (none here)
DateShaped == {}

\* (entity type, pattern, default value), in the order of the table
entity_patterns ==
    << <<"room_type", <<{"deluxe"}, {"room"}>>, "deluxe">>,
       <<"room_type", <<{"deluxe"}>>, "deluxe">>,
       <<"room_type", <<{"suite"}, {"room"}>>, "suite">>,
       <<"room_type", <<{"suite"}>>, "suite">>,
       <<"room_type", <<{"standard"}, {"room"}>>, "standard">>,
       <<"room_type", <<{"standard"}>>, "standard">>,
       <<"room_type", <<{"executive"}, {"room"}>>, "executive">>,
       <<"room_type", <<{"executive"}>>, "executive">>,
       <<"room_type", <<{"luxury"}, {"room"}>>, "deluxe">>,
       <<"room_type", <<{"premium"}, {"room"}>>, "deluxe">>,
       <<"room_type", <<{"basic"}, {"room"}>>, "standard">>,
       <<"room_type", <<{"regular"}, {"room"}>>, "standard">>,
       <<"number", <<Digits>>, NoDefault>>,
       <<"number", <<{"one", "two", "three", "four", "five", "six", "seven",
                      "eight", "nine", "ten"}>>, NoDefault>>,
       <<"date", <<{"today", "tomorrow", "tonight"}>>, NoDefault>>,
       <<"date", <<DateShaped>>, NoDefault>>,
       <<"booking_source", <<{"booking.com", "airbnb", "expedia", "ota", "online"}>>, "ota">>,
       <<"booking_source", <<{"direct", "directly", "website"}>>, "direct">> >>

\* match.group(0); every pattern without a default value is one token long
Group0(t, i) == t[i]

\* the confidence given to every entity
EntityConfidence == Ratio(9, 10)

\* an extraction that always takes the matched text as the value
RECURSIVE EntitiesLiteralFrom(_, _, _)
EntitiesLiteralFrom(t, i, row) ==
    IF i > Len(t) THEN <<>>
    ELSE IF At(t, i, row[2])
         THEN << [type |-> row[1],
                  value |-> Group0(t, i),
                  confidence |-> EntityConfidence] >>
              \o EntitiesLiteralFrom(t, i + Len(row[2]), row)
         ELSE EntitiesLiteralFrom(t, i + 1, row)

\* re.finditer(pattern, t) from token i on: one Entity per match, left to
\* right, the next match sought after the end of the last one
RECURSIVE EntitiesFrom(_, _, _)
EntitiesFrom(t, i, row) ==
    IF i > Len(t) THEN <<>>
    ELSE IF At(t, i, row[2])
         THEN << [type |-> row[1],
                  value |-> IF row[3] # NoDefault THEN row[3]
                            ELSE Group0(t, i),
                  confidence |-> EntityConfidence] >>
              \o EntitiesFrom(t, i + Len(row[2]), row)
         ELSE EntitiesFrom(t, i + 1, row)

\* a list without the later copies of its elements
RECURSIVE Distinct(_)
Distinct(seq) ==
    IF seq = <<>> THEN <<>>
    ELSE LET front == Distinct(SubSeq(seq, 1, Len(seq) - 1))
         IN  IF \E k \in DOMAIN front : front[k] = seq[Len(seq)]
             THEN front
             ELSE Append(front, seq[Len(seq)])

\* an extraction that keeps one entity per (type, value)
extract_entities_distinct(t) ==
    Distinct(Flatten([r \in DOMAIN entity_patterns |-> EntitiesFrom(t, 1, entity_patterns[r])]))

extract_entities(t) ==
    Flatten([r \in DOMAIN entity_patterns |-> EntitiesFrom(t, 1, entity_patterns[r])])

(***************************************************************************)
(* nlu_processor.py: NLUProcessor.process                                  *)
(***************************************************************************)
NLUResult(recognized, entities, text) ==
    [intent |-> recognized.intent,
     confidence |-> recognized.confidence,
     entities |-> entities,
     original_text |-> text]

\* the body of process, given text.lower().strip()
Processed(text_lower, text) ==
    NLUResult(recognize_intent(text_lower), extract_entities(text_lower), text)

process(text) == Processed(Strip(Lower(text)), text)

(***************************************************************************)
(* The state.                                                              *)
(***************************************************************************)
VARIABLES
    rooms,            \* table rooms, in rowid order
    faqs,             \* table faqs, in rowid order
    query_logs,       \* table query_logs
    failing,          \* the tables whose access raises sqlite3.Error
    client,           \* brain.client is not None
    pc,               \* where the caller of this core stands
    user_text,        \* get_agent_response: its arguments and locals
    use_ai,
    nlu_result,
    room_data,
    response,
    llm,              \* outcome of the last chat.completions.create
    get_rooms_calls,  \* calls of database.get_rooms since the turn began
    context,          \* the ResponseContext of the direct caller
    outputs,          \* what its calls of generate_response returned
    given             \* the fields the caller built that context with

vars ==
    <<rooms, faqs, query_logs, failing, client, pc, user_text, use_ai,
      nlu_result, room_data, response, llm, get_rooms_calls, context, outputs,
      given>>

(***************************************************************************)
(* Numbers.                                                                *)
(***************************************************************************)
\* a float with no fraction, in halves
Whole(n) == 2 * n

Abs(n) == IF n < 0 THEN -n ELSE n

\* round(n / d) for n >= 0, d > 0: to the nearest integer, a tie to the even one
RoundHalfEven(n, d) ==
    IF 2 * (n % d) < d THEN n \div d
    ELSE IF 2 * (n % d) > d THEN (n \div d) + 1
    ELSE IF (n \div d) % 2 = 0 THEN n \div d ELSE (n \div d) + 1

\* Python's optional values
None == [is_none |-> TRUE, value |-> <<>>]
Some(v) == [is_none |-> FALSE, value |-> v]
\* `not x` for an optional list
Falsy(x) == x.is_none \/ x.value = <<>>

(***************************************************************************)
(* database.py                                                             *)
(***************************************************************************)
Raised == [raised |-> TRUE, value |-> <<>>]
Returned(v) == [raised |-> FALSE, value |-> v]

\* ORDER BY rack_rate, rows of equal rate in rowid order
RECURSIVE InsertByRate(_, _)
InsertByRate(sorted, row) ==
    IF sorted = <<>> THEN <<row>>
    ELSE IF row.rack_rate < Head(sorted).rack_rate THEN <<row>> \o sorted
    ELSE <<Head(sorted)>> \o InsertByRate(Tail(sorted), row)

RECURSIVE OrderByRate(_)
OrderByRate(rows) ==
    IF rows = <<>> THEN <<>>
    ELSE InsertByRate(OrderByRate(SubSeq(rows, 1, Len(rows) - 1)), rows[Len(rows)])

\* the WHERE clause of get_rooms(available_only=True)
InStock(row) == row.inventory > 0

\* the dict get_rooms builds of one row (the keys the generator reads)
\* round(((rack_rate - direct_rate) / rack_rate) * 100)
DiscountPercentage(saved, rack_rate) ==
    IF saved < 0 THEN -RoundHalfEven(-saved * 100, rack_rate)
    ELSE RoundHalfEven(saved * 100, rack_rate)

RoomDict(row) ==
    [name |-> row.name,
     rack_rate |-> row.rack_rate,
     direct_rate |-> row.direct_rate,
     inventory |-> row.inventory,
     savings |-> row.rack_rate - row.direct_rate,
     discount_percentage |-> DiscountPercentage(row.rack_rate - row.direct_rate,
                                                row.rack_rate)]

\* get_rooms(): raises when the table cannot be read, and ZeroDivisionError
\* on a row whose rack_rate is 0
rooms_list(selected) ==
    IF \E i \in DOMAIN selected : selected[i].rack_rate = 0 THEN Raised
    ELSE Returned([i \in DOMAIN selected |-> RoomDict(selected[i])])

get_rooms ==
    IF "rooms" \in failing THEN Raised
    ELSE rooms_list(OrderByRate(SelectSeq(rooms, InStock)))

\* LIMIT 5 of search_faqs
FaqLimit == 5

\* ORDER BY priority DESC, rows of equal priority in rowid order
RECURSIVE InsertByPriority(_, _)
InsertByPriority(sorted, row) ==
    IF sorted = <<>> THEN <<row>>
    ELSE IF row.priority > Head(sorted).priority THEN <<row>> \o sorted
    ELSE <<Head(sorted)>> \o InsertByPriority(Tail(sorted), row)

RECURSIVE OrderByPriority(_)
OrderByPriority(rows) ==
    IF rows = <<>> THEN <<>>
    ELSE InsertByPriority(OrderByPriority(SubSeq(rows, 1, Len(rows) - 1)), rows[Len(rows)])

\* search_faqs(search_term): question LIKE %term% OR answer LIKE %term%;
\* row.mentions holds the search terms the two columns contain
Limit(found) ==
    SubSeq(found, 1, IF Len(found) < FaqLimit THEN Len(found) ELSE FaqLimit)

search_faqs(search_term) ==
    IF "faqs" \in failing THEN Raised
    ELSE Returned(Limit(OrderByPriority(
             SelectSeq(faqs, LAMBDA row : search_term \in row.mentions))))

\* the row log_query inserts (the response time is not part of the model)
LogRow(user_query, intent, confidence) ==
    [user_query |-> user_query, intent |-> intent, confidence |-> confidence]

\* a log_query without its try: the error of the insert reaches the caller
log_query_unguarded(user_query, intent, confidence) ==
    IF "query_logs" \in failing THEN Raised
    ELSE Returned(Append(query_logs, LogRow(user_query, intent, confidence)))

\* log_query: the insert; an exception inside the try is printed and the
\* function returns with the table as it was
log_query(user_query, intent, confidence) ==
    IF "query_logs" \in failing THEN Returned(query_logs)
    ELSE Returned(Append(query_logs, LogRow(user_query, intent, confidence)))

(***************************************************************************)
(* response_generator.py.  A text is a sequence of pieces (the literal     *)
(* parts of the f-strings and the formatted values); emoji and line breaks *)
(* of the literals are left out.                                           *)
(***************************************************************************)
\* config.business
direct_discount_percentage == 15
currency_symbol == "Rs"

\* three digits of a group after the first
Pad3(n) ==
    IF n < 10 THEN <<"00", ToString(n)>>
    ELSE IF n < 100 THEN <<"0", ToString(n)>>
    ELSE <<ToString(n)>>

\* {:,} on a natural number
RECURSIVE Grouped(_)
Grouped(n) ==
    IF n < 1000 THEN <<ToString(n)>>
    ELSE Grouped(n \div 1000) \o <<",">> \o Pad3(n % 1000)

\* _format_price: '<symbol>{:,.0f}' of a price in halves
format_price(price) ==
    <<currency_symbol>> \o (IF price < 0 THEN <<"-">> ELSE <<>>)
        \o Grouped(RoundHalfEven(Abs(price), 2))

\* the names of the rooms, lower-cased, as tokens
NameLower(name) ==
    CASE name = "Deluxe Room" -> <<"deluxe", "room">>
      [] name = "Suite Room" -> <<"suite", "room">>
      [] name = "Standard Room" -> <<"standard", "room">>
      [] name = "Executive Room" -> <<"executive", "room">>

\* room_type.lower() in r['name'].lower(), for a room type of one token
InName(room_type, name) == LowerToken(room_type) \in Range(NameLower(name))

\* [e for e in context.entities if e['type'] == 'room_type']
room_type_entities(ctx) ==
    SelectSeq(ctx.entities, LAMBDA e : e.type = "room_type")

\* [r for r in rows if room_type.lower() in r['name'].lower()]
matching_rooms(rows, room_type) ==
    SelectSeq(rows, LAMBDA r : InName(room_type, r.name))

\* what a handler does: it returns a text or raises, may have assigned
\* context.room_data, and has called get_rooms `calls` times
Return(text, ctx, calls) ==
    [raised |-> FALSE, text |-> text, context |-> ctx, calls |-> calls]
Raise(ctx, calls) ==
    [raised |-> TRUE, text |-> <<>>, context |-> ctx, calls |-> calls]

\* context.room_data = get_rooms(), given what get_rooms did
Fetched(ctx, got) ==
    IF got.raised THEN Raise(ctx, 1)
    ELSE Return(<<>>, [ctx EXCEPT !.room_data = Some(got.value)], 1)

\* a first statement without its test: context.room_data = get_rooms()
fetch_always(ctx) == Fetched(ctx, get_rooms)

\* if not context.room_data: context.room_data = get_rooms()
fetch_if_missing(ctx) ==
    IF Falsy(ctx.room_data) THEN Fetched(ctx, get_rooms) ELSE Return(<<>>, ctx, 0)

GreetingTemplate ==
    <<"Hi there! I'm your booking assistant. I can show you rooms, prices, and help you save 15% by booking direct. What are you looking for?">>
GoodbyeTemplate ==
    <<"Thanks for chatting! Remember, book direct to save 15%. Have a wonderful day!">>
HelpTemplate ==
    <<"I can help you with: View rooms & amenities, Check prices & compare rates, Book rooms directly, Answer FAQs. What would you like to know?">>

handle_greeting(ctx) == Return(GreetingTemplate, ctx, 0)
handle_goodbye(ctx) == Return(GoodbyeTemplate, ctx, 0)

\* faq_keywords: (search term, keywords of one token, keywords of two tokens),
\* in the order of the dict literal
faq_keywords ==
    << <<"check-in", {"check-in", "checkin", "checkout", "time", "hour"},
                     {<<"check", "in">>, <<"check", "out">>}>>,
       <<"WiFi", {"wifi", "internet", "wi-fi", "password", "network"}, {}>>,
       <<"cancellation", {"cancel", "cancellation", "refund"}, {}>>,
       <<"parking", {"parking", "park", "vehicle", "car"}, {}>>,
       <<"breakfast", {"breakfast", "food", "meal", "dining"}, {}>>,
       <<"payment", {"payment", "pay", "credit", "cash", "card"}, {}>>,
       <<"pets", {"pet", "pets", "dog", "cat", "animal"}, {}>>,
       <<"airport", {"airport", "pickup", "transport", "shuttle"}, {}>> >>

\* any(keyword in query_lower for keyword in keywords): a keyword is a
\* substring of the text, within one token or across one blank
any_keyword(query_lower, row) ==
    \/ \E i \in DOMAIN query_lower : Contains(query_lower[i], row[2])
    \/ \E i \in 1..(Len(query_lower) - 1) : \E two \in row[3] :
           Ends(query_lower[i], {two[1]}) /\ Starts(query_lower[i + 1], {two[2]})

\* a loop that ends at the first category with a keyword in the text,
\* whatever its search_faqs returns
RECURSIVE faq_lookup_first(_, _)
faq_lookup_first(query_lower, k) ==
    IF k > Len(faq_keywords) THEN Returned(<<>>)
    ELSE IF any_keyword(query_lower, faq_keywords[k])
         THEN search_faqs(faq_keywords[k][1])
         ELSE faq_lookup_first(query_lower, k + 1)

\* the for loop of _handle_help from category k on: the result of the last
\* search_faqs, which ends the loop when it is not empty
RECURSIVE faq_lookup(_, _)
faq_lookup(query_lower, k) ==
    IF k > Len(faq_keywords) THEN Returned(<<>>)
    ELSE IF any_keyword(query_lower, faq_keywords[k])
         THEN IF search_faqs(faq_keywords[k][1]).raised
                 \/ search_faqs(faq_keywords[k][1]).value # <<>>
              THEN search_faqs(faq_keywords[k][1])
              ELSE faq_lookup(query_lower, k + 1)
         ELSE faq_lookup(query_lower, k + 1)

\* the end of _handle_help, given the FAQs found
HelpAnswer(ctx, found) ==
    IF found.raised THEN Raise(ctx, 0)
    ELSE IF found.value # <<>>
    THEN Return(<<"**", found.value[1].question, "** ", found.value[1].answer,
                  " Need help with something else?">>, ctx, 0)
    ELSE Return(HelpTemplate, ctx, 0)

handle_help(ctx) == HelpAnswer(ctx, faq_lookup(Lower(ctx.user_query), 1))

\* one bullet of the room comparison
RoomLine(room) ==
    <<"**", room.name, "** - ">> \o format_price(room.direct_rate)
        \o <<"/night (save ">> \o format_price(room.rack_rate - room.direct_rate)
        \o <<"!) ", ToString(room.inventory), " available">>

NoRoomsText ==
    <<"I apologize, but we don't have any rooms available at the moment. Please check back later.">>

\* the single-room answer
RoomPitch(room) ==
    <<"Great choice! Our **", room.name, "** is available (",
      ToString(room.inventory), " rooms left). Pricing: OTA sites charge ">>
        \o format_price(room.rack_rate)
        \o <<"/night, but book direct for just ">>
        \o format_price(room.direct_rate)
        \o <<" - save ">>
        \o format_price(room.rack_rate - room.direct_rate)
        \o <<"! Ready to book?">>

RoomComparison(rows) ==
    <<"We have ", ToString(Len(rows)), " room types available:">>
        \o Flatten([i \in DOMAIN rows |-> RoomLine(rows[i])])
        \o <<"*All prices are 15% off OTA rates when you book direct!*">>

\* the end of _handle_room_query, after the filter
RoomAnswer(ctx, calls) ==
    IF Len(ctx.room_data.value) = 1
    THEN Return(RoomPitch(ctx.room_data.value[1]), ctx, calls)
    ELSE Return(RoomComparison(ctx.room_data.value), ctx, calls)

\* context.room_data = [r for r in context.room_data if ...], if an entity
\* of type room_type exists
Narrowed(ctx, found) ==
    IF found # <<>>
    THEN [ctx EXCEPT !.room_data = Some(matching_rooms(ctx.room_data.value, found[1].value))]
    ELSE ctx

\* _handle_room_query after its first statement
RoomQuery(fetched) ==
    IF fetched.raised THEN fetched
    ELSE IF Falsy(fetched.context.room_data)
    THEN Return(NoRoomsText, fetched.context, fetched.calls)
    ELSE RoomAnswer(Narrowed(fetched.context, room_type_entities(fetched.context)),
                    fetched.calls)

handle_room_query(ctx) == RoomQuery(fetch_if_missing(ctx))

\* one bullet of the price list
PriceLine(room) ==
    <<"* **", room.name, ":** ">> \o format_price(room.direct_rate)
        \o <<"/night *(save ">> \o format_price(room.rack_rate - room.direct_rate)
        \o <<")*">>

PriceListHead == <<"**Direct Booking Prices** (15% off OTA rates):">>

\* a breakdown that shows the direct rate in the place of the OTA rate
PriceBreakdownOfDirect(room) ==
    <<"**", room.name, " Pricing:** OTA Platforms: ">>
        \o format_price(room.direct_rate)
        \o <<" Direct Booking: ">>
        \o format_price(room.direct_rate)
        \o <<" **You save ">>
        \o format_price(room.rack_rate - room.direct_rate)
        \o <<"** by booking directly! That's a ",
             ToString(direct_discount_percentage),
             "% discount compared to Booking.com, Expedia, etc.">>

PriceBreakdown(room) ==
    <<"**", room.name, " Pricing:** OTA Platforms: ">>
        \o format_price(room.rack_rate)
        \o <<" Direct Booking: ">>
        \o format_price(room.direct_rate)
        \o <<" **You save ">>
        \o format_price(room.rack_rate - room.direct_rate)
        \o <<"** by booking directly! That's a ",
             ToString(direct_discount_percentage),
             "% discount compared to Booking.com, Expedia, etc.">>

PriceList(rows) ==
    PriceListHead
        \o Flatten([i \in DOMAIN rows |-> PriceLine(rows[i])])
        \o <<"These are direct booking prices - all 15% cheaper than Booking.com/MakeMyTrip!">>

\* the rooms matching the last room_type entity
MatchingLast(rows, found) ==
    IF found # <<>> THEN matching_rooms(rows, found[Len(found)].value) ELSE <<>>

\* the rooms matching the first room_type entity; none without an entity
Matching(rows, found) ==
    IF found # <<>> THEN matching_rooms(rows, found[1].value) ELSE <<>>

\* an end of _handle_price_query without the branch on matching_rooms
PriceAnswerListOnly(ctx, matching, calls) ==
    Return(PriceList(ctx.room_data.value), ctx, calls)

\* the end of _handle_price_query, given matching_rooms
PriceAnswer(ctx, matching, calls) ==
    IF matching # <<>>
    THEN Return(PriceBreakdown(matching[1]), ctx, calls)
    ELSE Return(PriceList(ctx.room_data.value), ctx, calls)

\* _handle_price_query after its first statement
PriceQuery(fetched) ==
    IF fetched.raised THEN fetched
    ELSE PriceAnswer(fetched.context,
                     Matching(fetched.context.room_data.value,
                              room_type_entities(fetched.context)),
                     fetched.calls)

handle_price_query(ctx) == PriceQuery(fetch_if_missing(ctx))

\* one line of the general availability
AvailableLine(room) ==
    <<"- ", room.name, ": ", ToString(room.inventory), " rooms at ">>
        \o format_price(room.direct_rate)

FullyBookedText ==
    <<"Unfortunately, we're fully booked at the moment. Would you like me to check alternative dates?">>

SoldOutTail == " is currently sold out. Can I suggest another room type?"

AvailableHead == "Yes! We have **"

RoomAvailable(room) ==
    <<AvailableHead, ToString(room.inventory), " ", room.name,
      "(s)** available. Direct booking rate: ">>
        \o format_price(room.direct_rate)
        \o <<" (Save ">>
        \o format_price(room.savings)
        \o <<" vs OTA platforms) Would you like to proceed with booking?">>

AvailableListHead(n) == <<"We have ", ToString(n), " room types available:">>

\* the general availability, given [r for r in room_data if r['inventory'] > 0]
GeneralAvailability(available) ==
    IF available # <<>>
    THEN AvailableListHead(Len(available))
            \o Flatten([i \in DOMAIN available |-> AvailableLine(available[i])])
            \o <<"Book directly to save 15%!">>
    ELSE FullyBookedText

\* the end of _handle_availability, given matching_rooms
AvailabilityAnswer(ctx, matching, calls) ==
    IF matching # <<>>
    THEN IF matching[1].inventory > 0
         THEN Return(RoomAvailable(matching[1]), ctx, calls)
         ELSE Return(<<"Sorry, ", matching[1].name, SoldOutTail>>, ctx, calls)
    ELSE Return(GeneralAvailability(SelectSeq(ctx.room_data.value,
                                              LAMBDA r : r.inventory > 0)),
                ctx, calls)

\* _handle_availability after its first statement
Availability(fetched) ==
    IF fetched.raised THEN fetched
    ELSE AvailabilityAnswer(fetched.context,
                            Matching(fetched.context.room_data.value,
                                     room_type_entities(fetched.context)),
                            fetched.calls)

handle_availability(ctx) == Availability(fetch_if_missing(ctx))

\* one group of the rate comparison
ComparisonLines(room) ==
    <<"**", room.name, ":** - Booking.com/Expedia: ">> \o format_price(room.rack_rate)
        \o <<" - Our Direct Rate: ">> \o format_price(room.direct_rate)
        \o <<" - Your Savings: ">> \o format_price(room.rack_rate - room.direct_rate)

ComparisonHead ==
    <<"**Direct Booking vs OTA Platforms:** Here's how much you save by booking directly:">>

\* total_ota, total_direct and total_savings are computed and not shown
RateComparison(fetched) ==
    IF fetched.raised THEN fetched
    ELSE Return(ComparisonHead
                \o Flatten([i \in DOMAIN fetched.context.room_data.value |->
                               ComparisonLines(fetched.context.room_data.value[i])])
                \o <<"**Bottom Line:** By booking directly, you avoid OTA commissions and get ",
                     ToString(direct_discount_percentage),
                     "% off! No hidden fees. No middleman. Just better prices.">>,
                fetched.context, fetched.calls)

handle_rate_comparison(ctx) == RateComparison(fetch_if_missing(ctx))

\* one bullet of the booking options
BookingLine(room) ==
    <<"* **", room.name, "** - ">> \o format_price(room.direct_rate)
        \o <<"/night (", ToString(room.inventory), " available)">>

BookingListHead ==
    <<"Absolutely! I'd be happy to help you book directly and save 15%! **Available rooms:**">>

BookingInstructions(room) ==
    <<"Perfect! Let me help you book the **", room.name,
      "**. **Call us at: +91-XXXX-XXXX** (24/7 booking line) **Or book online at: www.simplotel.com/direct-booking** **Your Price:** ">>
        \o format_price(room.direct_rate)
        \o <<"/night (save ">>
        \o format_price(room.rack_rate - room.direct_rate)
        \o <<"!) **Mention code:** DIRECT15 to confirm your discount Ready to book now? Just call or visit our website!">>

\* the end of _handle_booking: the list of options, after the fetch before it
BookingOptions(fetched, calls_before) ==
    IF fetched.raised THEN Raise(fetched.context, calls_before + fetched.calls)
    ELSE Return(BookingListHead
                \o Flatten([i \in DOMAIN fetched.context.room_data.value |->
                               BookingLine(fetched.context.room_data.value[i])])
                \o <<"**Book now:** Call +91-XXXX-XXXX or visit www.simplotel.com **Use code DIRECT15** for your 15% discount! Which room type interests you?">>,
                fetched.context, calls_before + fetched.calls)

\* the branch `if room_type_entities:`, given matching_rooms
BookingOf(ctx, matching, calls) ==
    IF matching # <<>>
    THEN Return(BookingInstructions(matching[1]), ctx, calls)
    ELSE BookingOptions(fetch_if_missing(ctx), calls)

\* the branch `if room_type_entities:` after its fetch
BookingWithType(fetched, found) ==
    IF fetched.raised THEN fetched
    ELSE BookingOf(fetched.context,
                   matching_rooms(fetched.context.room_data.value, found[1].value),
                   fetched.calls)

\* _handle_booking, given room_type_entities
Booking(ctx, found) ==
    IF found # <<>> THEN BookingWithType(fetch_if_missing(ctx), found)
    ELSE BookingOptions(fetch_if_missing(ctx), 0)

handle_booking(ctx) == Booking(ctx, room_type_entities(ctx))

UnknownText ==
    <<"I'm not sure I understood that correctly. I can help you with: - Viewing available rooms and prices - Comparing direct booking vs OTA rates - Checking room availability - Making reservations What would you like to know?">>

handle_unknown(ctx) == Return(UnknownText, ctx, 0)

\* a handler_map without the entry of HELP
generate_response_without_help(ctx) ==
    CASE ctx.intent = "GREETING" -> handle_greeting(ctx)
      [] ctx.intent = "GOODBYE" -> handle_goodbye(ctx)
      [] ctx.intent = "QUERY_ROOMS" -> handle_room_query(ctx)
      [] ctx.intent = "QUERY_PRICES" -> handle_price_query(ctx)
      [] ctx.intent = "CHECK_AVAILABILITY" -> handle_availability(ctx)
      [] ctx.intent = "COMPARE_RATES" -> handle_rate_comparison(ctx)
      [] ctx.intent = "BOOK_ROOM" -> handle_booking(ctx)
      [] OTHER -> handle_unknown(ctx)

\* handler_map.get(context.intent, self._handle_unknown)(context)
generate_response(ctx) ==
    CASE ctx.intent = "GREETING" -> handle_greeting(ctx)
      [] ctx.intent = "GOODBYE" -> handle_goodbye(ctx)
      [] ctx.intent = "HELP" -> handle_help(ctx)
      [] ctx.intent = "QUERY_ROOMS" -> handle_room_query(ctx)
      [] ctx.intent = "QUERY_PRICES" -> handle_price_query(ctx)
      [] ctx.intent = "CHECK_AVAILABILITY" -> handle_availability(ctx)
      [] ctx.intent = "COMPARE_RATES" -> handle_rate_comparison(ctx)
      [] ctx.intent = "BOOK_ROOM" -> handle_booking(ctx)
      [] OTHER -> handle_unknown(ctx)

(***************************************************************************)
(* brain.py                                                                *)
(***************************************************************************)
\* a list of intents for Step 2 that has BOOK_ROOM in it too
FetchIntentsWithBooking ==
    {"QUERY_ROOMS", "QUERY_PRICES", "CHECK_AVAILABILITY", "COMPARE_RATES", "BOOK_ROOM"}

\* the intents for which get_agent_response reads the rooms itself
FetchIntents == {"QUERY_ROOMS", "QUERY_PRICES", "CHECK_AVAILABILITY", "COMPARE_RATES"}

\* should_use_ai = use_ai if use_ai is not None else False
should_use_ai == IF use_ai = "None" THEN FALSE ELSE use_ai = "True"

\* the ResponseContext built by get_agent_response
rule_context ==
    [intent |-> nlu_result.intent,
     entities |-> nlu_result.entities,
     user_query |-> user_text,
     room_data |-> room_data]

\* a fallback that builds its context without the entities of the turn
fallback_without_entities ==
    generate_response([intent |-> nlu_result.intent,
                       entities |-> <<>>,
                       user_query |-> nlu_result.original_text,
                       room_data |-> room_data])

\* _fallback_response(nlu_result, entities, room_data)
fallback_response ==
    generate_response([intent |-> nlu_result.intent,
                       entities |-> nlu_result.entities,
                       user_query |-> nlu_result.original_text,
                       room_data |-> room_data])

\* what the model wrote, when it wrote something
ModelText == <<"(text written by the language model)">>

\* chat.completions.create(..., tools=TOOLS): it raises (an error of the
\* network or of the API, its timeout), answers without choices, or answers
\* with a message: of content, of empty or no content, or asking for a tool;
\* or it does not return: the call is made without a timeout of its own
FirstOutcomes ==
    {"raises", "no_choices", "content", "empty_content", "no_content",
     "tool_get_rooms", "tool_other", "tool_other_content", "hangs"}
\* the second call is made without tools
FinalOutcomes ==
    {"raises", "no_choices", "content", "empty_content", "no_content", "hangs"}

\* message.content of an outcome
Content(outcome) ==
    CASE outcome \in {"content", "tool_other_content"} -> Some(ModelText)
      [] outcome = "empty_content" -> Some(<<>>)
      [] OTHER -> None

\* the turn ends in the text (or the None) it returns, or in an exception
Hands(result) ==
    IF result.raised
    THEN /\ pc' = "raised"
         /\ response' = None
    ELSE /\ pc' = "log"
         /\ response' = Some(result.text)

\* the turn ends as `result` says, after `calls` calls of get_rooms
Ends_turn(result, calls) ==
    /\ Hands(result)
    /\ get_rooms_calls' = get_rooms_calls + calls

\* line 160 runs _fallback_response inside the try: an exception it raises
\* is caught, and the except clause runs _fallback_response once more
Twice(result) == IF result.raised THEN 2 * result.calls ELSE result.calls

(***************************************************************************)
(* The inputs.                                                             *)
(***************************************************************************)
SampleTexts ==
    {<<"Do", "you", "have", "any", "suites", "available", "?">>,
     <<"Hello", "show", "rooms", "available">>,
     <<"thanks", "show", "rooms", "available">>,
     <<"How", "much", "is", "the", "deluxe", "room", "?">>,
     <<"I", "want", "a", "luxury", "room">>,
     <<"What", "rooms", "do", "you", "have", "available", "?">>,
     <<"I", "want", "to", "book", "a", "suite">>,
     <<"book", "executive", "room">>,
     <<"Do", "you", "have", "any", "standard", "rooms", "available", "?">>,
     <<"Is", "the", "suite", "available", "?">>,
     <<"do", "you", "have", "wifi">>,
     <<"what", "time", "is", "check", "in">>,
     <<"discount">>,
     <<"book", "2", "luxury", "room", "tonight">>,
     <<"book", "a", "suite", "room", "a", "deluxe", "room">>,
     <<" ", " ", " ">>}

ShortVocab == {" ", "hi", "book", "suite", "rooms", "available"}

Texts == SampleTexts \cup SeqsUpTo(ShortVocab, MaxWords)

Row(name, rack, direct, inventory) ==
    [name |-> name, rack_rate |-> rack, direct_rate |-> direct, inventory |-> inventory]

\* init_db: the rooms it seeds, with the inventory of the suite
SeededRooms(suites) ==
    <<Row("Deluxe Room", Whole(5000), Whole(4250), 10),
      Row("Suite Room", Whole(8000), Whole(6800), suites),
      Row("Standard Room", Whole(3000), Whole(2550), 15),
      Row("Executive Room", Whole(6500), Whole(5525), 8)>>

Faq(question, answer, priority, mentions) ==
    [question |-> question, answer |-> answer, priority |-> priority, mentions |-> mentions]

\* init_db: the FAQs it seeds
SeededFaqs ==
    <<Faq("What is the check-in time?", "Check-in time is 2:00 PM and check-out is 12:00 PM.",
          10, {"check-in"}),
      Faq("Do you offer airport pickup?", "Yes, we offer complimentary airport pickup for suite bookings. For other rooms, it's available at Rs500.",
          8, {"airport"}),
      Faq("Is WiFi free?", "Yes, high-speed WiFi is complimentary for all guests.",
          9, {"WiFi"}),
      Faq("What is your cancellation policy?", "Free cancellation up to 24 hours before check-in. After that, one night's charge applies.",
          10, {"cancellation", "check-in"}),
      Faq("Do you have parking facilities?", "Yes, we have free parking for all guests.",
          7, {"parking"}),
      Faq("Is breakfast included?", "Breakfast is complimentary for direct bookings. OTA bookings can add breakfast for Rs300 per person.",
          9, {"breakfast"}),
      Faq("What payment methods do you accept?", "We accept cash, credit/debit cards, UPI, and bank transfers.",
          6, {"payment"}),
      Faq("Are pets allowed?", "Yes, we are pet-friendly. Additional charge of Rs500 per night applies.",
          5, {"pets"})>>

\* the rooms table after its rates were edited: the schema puts no
\* constraint on rack_rate and direct_rate, and here the direct rate of the
\* deluxe room is above its rack rate
RepricedRooms ==
    <<Row("Deluxe Room", Whole(5000), Whole(5500), 10),
      Row("Standard Room", Whole(3000), Whole(2550), 15)>>

\* the contents of the store: as seeded, with the suite sold out, with only
\* a sold-out suite, with empty tables, and with edited rates
\* the FAQs of a store from which the row on WiFi was deleted
RemainingFaqs == SelectSeq(SeededFaqs, LAMBDA row : "WiFi" \notin row.mentions)

Stores ==
    {[rooms |-> SeededRooms(5), faqs |-> SeededFaqs],
     [rooms |-> SeededRooms(0), faqs |-> SeededFaqs],
     [rooms |-> <<Row("Suite Room", Whole(8000), Whole(6800), 0)>>, faqs |-> SeededFaqs],
     [rooms |-> <<>>, faqs |-> <<>>],
     [rooms |-> RepricedRooms, faqs |-> RemainingFaqs]}

\* the tables that cannot be read or written
Failures == {{}, {"rooms"}, {"faqs"}, {"query_logs"}, {"rooms", "faqs", "query_logs"}}

Entity(type, value) == [type |-> type, value |-> value, confidence |-> EntityConfidence]

\* the contexts a direct caller of generate_response builds
DirectEntities ==
    {<<>>,
     <<Entity("room_type", "deluxe")>>,
     <<Entity("room_type", "executive")>>,
     <<Entity("number", "2"), Entity("room_type", "Suite")>>,
     <<Entity("room_type", "standard"), Entity("number", "2"),
       Entity("room_type", "suite")>>}

DirectRoomData ==
    {None,
     Some(<<>>),
     Some(<<RoomDict(Row("Deluxe Room", Whole(5000), Whole(4250), 10))>>),
     Some(<<RoomDict(Row("Standard Room", Whole(3000), Whole(2550), 15)),
            RoomDict(Row("Suite Room", Whole(8000), Whole(6800), 0))>>)}

DirectQueries ==
    {<<"Is", "wifi", "free", "?">>, <<" ", "book", "suite">>,
     <<"Is", "wifi", "free", "in", "the", "parking", "?">>}

DirectContexts ==
    [intent : Range(Intent), entities : DirectEntities,
     user_query : DirectQueries, room_data : DirectRoomData]

\* calls of generate_response the direct caller makes on one context
MaxCalls == 2

(***************************************************************************)
(* The state machine.                                                      *)
(***************************************************************************)
NoResult == [intent |-> "UNKNOWN", confidence |-> Ratio(0, 1), entities |-> <<>>,
             original_text |-> <<>>]
NoContext == [intent |-> "UNKNOWN", entities |-> <<>>, user_query |-> <<>>,
              room_data |-> None]

Init ==
    /\ \E store \in Stores : rooms = store.rooms /\ faqs = store.faqs
    /\ query_logs = <<>>
    /\ failing \in Failures
    /\ client \in BOOLEAN
    /\ pc = "idle"
    /\ user_text = <<>>
    /\ use_ai = "None"
    /\ nlu_result = NoResult
    /\ room_data = None
    /\ response = None
    /\ llm = <<>>
    /\ get_rooms_calls = 0
    /\ context = NoContext
    /\ outputs = <<>>
    /\ given = NoContext

store_vars == <<rooms, faqs, failing, client>>
direct_vars == <<context, outputs, given>>

\* get_agent_response(text, flag) is called
Call(text, flag) ==
    /\ pc = "idle"
    /\ pc' = "nlu"
    /\ user_text' = text
    /\ use_ai' = flag
    /\ UNCHANGED <<store_vars, direct_vars, query_logs, nlu_result, room_data,
                   response, llm, get_rooms_calls>>

\* Step 1: nlu_result = nlu_processor.process(user_text)
Understand ==
    /\ pc = "nlu"
    /\ nlu_result' = process(user_text)
    /\ pc' = "fetch"
    /\ UNCHANGED <<store_vars, direct_vars, query_logs, user_text, use_ai,
                   room_data, response, llm, get_rooms_calls>>

\* Step 2: room_data = get_rooms() for the intents that need it
Fetch ==
    /\ pc = "fetch"
    /\ IF nlu_result.intent \in FetchIntents
       THEN /\ get_rooms_calls' = get_rooms_calls + 1
            /\ IF get_rooms.raised
               THEN pc' = "raised" /\ room_data' = None
               ELSE pc' = "generate" /\ room_data' = Some(get_rooms.value)
       ELSE /\ pc' = "generate"
            /\ UNCHANGED <<room_data, get_rooms_calls>>
    /\ UNCHANGED <<store_vars, direct_vars, query_logs, user_text, use_ai,
                   nlu_result, response, llm>>

\* Step 4, else branch: response_generator.generate_response(context)
GenerateRuleBased ==
    /\ pc = "generate"
    /\ ~(should_use_ai /\ client)
    /\ Ends_turn(generate_response(rule_context),
                 generate_response(rule_context).calls)
    /\ UNCHANGED <<store_vars, direct_vars, query_logs, user_text, use_ai,
                   nlu_result, room_data, llm>>

\* Step 4, if branch: _generate_ai_response up to its return or to its
\* second request; every exception raised in the try ends in the fallback
GenerateWithModel(outcome) ==
    /\ pc = "generate"
    /\ should_use_ai /\ client
    /\ llm' = Append(llm, outcome)
    /\ CASE outcome = "tool_get_rooms" /\ ~get_rooms.raised ->
              \* rooms_data = get_rooms(), then the second request
              /\ pc' = "final"
              /\ get_rooms_calls' = get_rooms_calls + 1
              /\ UNCHANGED response
         [] outcome = "tool_get_rooms" /\ get_rooms.raised ->
              \* rooms_data = get_rooms() raises: except, _fallback_response
              Ends_turn(fallback_response, 1 + fallback_response.calls)
         [] outcome = "hangs" ->
              \* create does not return: the turn waits in it
              /\ pc' = "blocked"
              /\ UNCHANGED <<response, get_rooms_calls>>
         [] outcome \in {"content", "tool_other_content"} ->
              \* return response_message.content
              /\ pc' = "log"
              /\ response' = Content(outcome)
              /\ UNCHANGED get_rooms_calls
         [] outcome \in {"empty_content", "no_content", "tool_other"} ->
              \* ... else _fallback_response(nlu_result, entities, room_data)
              Ends_turn(fallback_response, Twice(fallback_response))
         [] OTHER ->
              \* create raises, or choices[0] does: except, _fallback_response
              Ends_turn(fallback_response, fallback_response.calls)
    /\ UNCHANGED <<store_vars, direct_vars, query_logs, user_text, use_ai,
                   nlu_result, room_data>>

\* the second chat.completions.create and
\* return final_response.choices[0].message.content
FinalCompletion(outcome) ==
    /\ pc = "final"
    /\ llm' = Append(llm, outcome)
    /\ IF outcome \in {"raises", "no_choices"}
       THEN Ends_turn(fallback_response, fallback_response.calls)
       ELSE IF outcome = "hangs"
       THEN /\ pc' = "blocked"
            /\ UNCHANGED <<response, get_rooms_calls>>
       ELSE /\ pc' = "log"
            /\ response' = Content(outcome)
            /\ UNCHANGED get_rooms_calls
    /\ UNCHANGED <<store_vars, direct_vars, query_logs, user_text, use_ai,
                   nlu_result, room_data>>

\* the call of log_query returns, and the turn returns its response; an
\* exception of log_query would leave get_agent_response
Logged(result) ==
    IF result.raised
    THEN pc' = "raised" /\ UNCHANGED query_logs
    ELSE pc' = "done" /\ query_logs' = result.value

\* Step 5: log_query(...) and return response (the measured response time
\* is not part of the model)
Log ==
    /\ pc = "log"
    /\ Logged(log_query(user_text, nlu_result.intent, nlu_result.confidence))
    /\ UNCHANGED <<store_vars, direct_vars, user_text, use_ai, nlu_result,
                   room_data, response, llm, get_rooms_calls>>

\* what one call of generate_response gave its caller
Output(result) == [raised |-> result.raised, text |-> result.text]

\* the caller keeps the context object and what the call gave
Keeps(result, before) ==
    /\ context' = result.context
    /\ outputs' = Append(outputs, Output(result))
    /\ get_rooms_calls' = before + result.calls

\* a caller builds a ResponseContext and calls generate_response(context)
Generate(ctx) ==
    /\ pc = "idle"
    /\ given' = ctx
    /\ Keeps(generate_response(ctx), 0)
    /\ pc' = "generated"
    /\ UNCHANGED <<store_vars, query_logs, user_text, use_ai, nlu_result,
                   room_data, response, llm>>

\* and calls generate_response(context) again with the same object
GenerateAgain ==
    /\ pc = "generated"
    /\ Len(outputs) < MaxCalls
    /\ Keeps(generate_response(context), get_rooms_calls)
    /\ UNCHANGED <<store_vars, query_logs, pc, user_text, use_ai, nlu_result,
                   room_data, response, llm, given>>

Next ==
    \/ \E text \in Texts, flag \in {"None", "True", "False"} : Call(text, flag)
    \/ Understand
    \/ Fetch
    \/ GenerateRuleBased
    \/ \E outcome \in FirstOutcomes : GenerateWithModel(outcome)
    \/ \E outcome \in FinalOutcomes : FinalCompletion(outcome)
    \/ Log
    \/ \E ctx \in DirectContexts : Generate(ctx)
    \/ GenerateAgain

Spec == Init /\ [][Next]_vars

\* the places of a turn from which the interpreter goes on by itself: the
\* statement there ends, and Next has a step for every way it ends.  In
\* "blocked" the turn waits for the call of the language model to return.
Running == {"nlu", "fetch", "generate", "final", "log"}

(***************************************************************************)
(* The properties.                                                         *)
(***************************************************************************)
\* the turn has ended: it is about to log, has returned, or has raised
Ended == pc \in {"log", "done", "raised"}
\* the turn has returned a response, or is about to
Returns == pc \in {"log", "done"}
\* the turn went through the language model, and this was its last answer
LastOutcome(outcomes) == llm # <<>> /\ llm[Len(llm)] \in outcomes
\* process has just returned: nlu_result is the classification of user_text
Understood == pc = "fetch"
\* the text the classifier works on
text_lower == Strip(Lower(user_text))
\* a text has this piece
Says(text, piece) == \E i \in DOMAIN text : text[i] = piece

\* C1: when the call of the language model raises (an error, a timeout),
\* whether it is the first call or the one after a tool request, the turn
\* returns the text generate_response gives on the rule-based context of the
\* turn (same intent, entities, user_query, room_data), and raises when it
\* raises.
FallbackEquivalence ==
    (Ended /\ LastOutcome({"raises"})) =>
        IF generate_response(rule_context).raised
        THEN pc = "raised"
        ELSE /\ Returns
             /\ response = Some(generate_response(rule_context).text)

\* C1 happens: the model call raised in a turn whose entities decide the text
FallbackEquivalenceWitness ==
    /\ pc = "done"
    /\ llm = <<"raises">>
    /\ room_type_entities(rule_context) # <<>>
    /\ nlu_result.intent = "QUERY_PRICES"
    /\ response # None
    /\ Says(response.value, " Pricing:** OTA Platforms: ")

\* C2: a turn on the AI path whose last completion did not succeed (it raised,
\* had no choices, or had empty or no content, in the first completion or in
\* the one that follows a tool request) returns the rule-based response of
\* the same context, never an empty text and never None.
NonSuccess == {"raises", "no_choices", "empty_content", "no_content"}
AnyFailureFallsBack ==
    (Returns /\ LastOutcome(NonSuccess)) =>
        /\ response # None
        /\ response.value # <<>>
        /\ response = Some(generate_response(rule_context).text)

\* C3: get_agent_response and generate_response end in a response, never in
\* an exception, whatever the stores and the language model do.
NeverPropagates ==
    /\ pc # "raised"
    /\ \A i \in DOMAIN outputs : ~outputs[i].raised

\* C4: in one turn get_rooms is called at most once.
FetchedAtMostOnce ==
    pc \in {"nlu", "fetch", "generate", "final", "log", "done", "raised"} =>
        get_rooms_calls <= 1

\* the scored intents no scored intent exceeds
Maxima(t) ==
    {i \in Range(PatternOrder) :
        /\ Score(i, t) > 0
        /\ \A j \in Range(PatternOrder) :
              Score(j, t) > 0 => ~RatioLess(Confidence(i, t), Confidence(j, t))}
\* the first member of S in an order
FirstIn(order, S) ==
    order[CHOOSE k \in DOMAIN order :
              order[k] \in S /\ \A m \in 1..(k - 1) : order[m] \notin S]

\* C5, as the specification words it: when several intents share the maximum
\* score, the intent returned is the one declared first in the Intent
\* enumeration.
TieGoesToFirstDeclared ==
    (Understood /\ Cardinality(Maxima(text_lower)) > 1) =>
        nlu_result.intent = FirstIn(Intent, Maxima(text_lower))

\* C5, as the code has it: when several intents share the maximum score, the
\* intent returned is the one that comes first in the pattern table
\* (GREETING, GOODBYE, QUERY_ROOMS, QUERY_PRICES, CHECK_AVAILABILITY,
\* COMPARE_RATES, BOOK_ROOM, HELP), with the shared score as its confidence.
TieGoesToFirstInTable ==
    (Understood /\ Cardinality(Maxima(text_lower)) > 1) =>
        /\ nlu_result.intent =
              FirstIn(<<"GREETING", "GOODBYE", "QUERY_ROOMS", "QUERY_PRICES",
                        "CHECK_AVAILABILITY", "COMPARE_RATES", "BOOK_ROOM", "HELP">>,
                      Maxima(text_lower))
        /\ nlu_result.confidence = Confidence(nlu_result.intent, text_lower)

\* C5 happens: a greeting and a room query tie, and the two orders disagree
TieWitness ==
    /\ Understood
    /\ "GREETING" \in Maxima(text_lower)
    /\ "QUERY_ROOMS" \in Maxima(text_lower)
    /\ nlu_result.intent = "GREETING"

\* C6: the confidence of a classification lies in [0, 1], it is 0 exactly
\* when the intent is UNKNOWN, and the intent is a member of Intent.
ConfidenceInRange ==
    Understood =>
        /\ nlu_result.intent \in Range(Intent)
        /\ nlu_result.confidence.den > 0
        /\ 0 <= nlu_result.confidence.num
        /\ nlu_result.confidence.num <= nlu_result.confidence.den
        /\ (nlu_result.confidence.num = 0) <=> (nlu_result.intent = "UNKNOWN")

\* C6 happens: a text that is classified with less than full confidence, and
\* so the upper bound is not the only value a known intent takes
ConfidenceWitness ==
    /\ Understood
    /\ nlu_result.intent = "QUERY_ROOMS"
    /\ nlu_result.confidence = Ratio(1, 6)

\* C7: the classification of an empty text, or of one that is only
\* whitespace, is UNKNOWN with confidence 0.0 and no entities.
EmptyTextIsUnknown ==
    (Understood /\ \A i \in DOMAIN user_text : user_text[i] = Whitespace) =>
        /\ nlu_result.intent = "UNKNOWN"
        /\ nlu_result.confidence = Ratio(0, 1)
        /\ nlu_result.entities = <<>>
        /\ nlu_result.original_text = user_text

\* C7 happens: a text of whitespace only has been classified
EmptyTextWitness ==
    /\ Understood
    /\ user_text = <<Whitespace, Whitespace>>
    /\ nlu_result.intent = "UNKNOWN"

\* the question of the scenario
SuiteQuestion == <<"Do", "you", "have", "any", "suites", "available", "?">>
\* the store has a suite and none of it is left
SuiteSoldOut ==
    /\ \E i \in DOMAIN rooms : InName("suite", rooms[i].name)
    /\ \A i \in DOMAIN rooms : InName("suite", rooms[i].name) => rooms[i].inventory = 0
\* the openings of the answers that say rooms can be had
ClaimsAvailability(text) ==
    \/ Says(text, "We have ")
    \/ Says(text, AvailableHead)
    \/ Says(text, "Great choice! Our **")

\* C8: the rule-based answer to "Do you have any suites available?", when
\* the inventory of the suite is 0, says the suite is sold out and offers
\* another room type, and does not say that rooms are available.
SuiteSoldOutIsStated ==
    (Returns /\ llm = <<>> /\ user_text = SuiteQuestion /\ SuiteSoldOut) =>
        /\ response # None
        /\ Says(response.value, SoldOutTail)
        /\ ~ClaimsAvailability(response.value)

\* the intents whose handlers read the rooms
RoomIntents ==
    {"QUERY_ROOMS", "QUERY_PRICES", "CHECK_AVAILABILITY", "COMPARE_RATES", "BOOK_ROOM"}
\* the two messages that say no room can be had
NoRoomMessages == {NoRoomsText, FullyBookedText}

\* C9: when the room store returns an empty list, the handler of every
\* room intent answers with a message that says no room can be had, in a
\* turn and in a direct call that had to ask the store.
EmptyStoreIsExplicit ==
    /\ (/\ Returns
        /\ llm = <<>>
        /\ nlu_result.intent \in RoomIntents
        /\ get_rooms = Returned(<<>>))
            => (response # None /\ response.value \in NoRoomMessages)
    /\ (/\ pc = "generated"
        /\ Len(outputs) = 1
        /\ context.intent \in RoomIntents
        /\ get_rooms_calls >= 1
        /\ get_rooms = Returned(<<>>))
            => outputs[1].text \in NoRoomMessages

\* C10: two calls in succession of generate_response with the same
\* ResponseContext, the store unchanged, return the same text.
GenerateIsIdempotent ==
    (pc = "generated" /\ Len(outputs) >= 2) => outputs[2] = outputs[1]

\* C11: the step that logs the query always ends in the return of the
\* response the turn had before it, whether the insert succeeds or fails:
\* log_query lets no exception out.
LogFailureIsSwallowed ==
    [][pc = "log" => (pc' = "done" /\ response' = response)]_vars

\* C11 happens: a turn has returned its response though the log cannot be
\* written
LogFailureWitness ==
    /\ pc = "done"
    /\ "query_logs" \in failing
    /\ query_logs = <<>>
    /\ response # None
    /\ response.value # <<>>

\* the turn is at a call of the language model that has not returned
Waiting == pc \notin Running \cup {"idle", "generated", "done", "raised"}

\* C12: every turn that starts comes to its end, in a response or in an
\* exception: at a statement that ends it goes on by itself, and when it
\* waits for a call of the language model it has a step to take, the end
\* of the wait.
TurnCompletes == Waiting => ENABLED Next

\* a text has these pieces, one after the other
Shows(text, pieces) ==
    \E i \in 1..(Len(text) - Len(pieces) + 1) :
        SubSeq(text, i, i + Len(pieces) - 1) = pieces
\* the question of the scenario
DeluxeQuestion == <<"How", "much", "is", "the", "deluxe", "room", "?">>
\* the piece that opens the rates of a breakdown
BreakdownMark == " Pricing:** OTA Platforms: "

\* C13: "How much is the deluxe room?" is classified QUERY_PRICES with an
\* entity of type room_type and value deluxe; and when the store has the
\* deluxe room in stock, the rule-based answer shows its rack rate, its
\* direct rate, and as savings rack_rate - direct_rate.
DeluxePriceIsShown ==
    /\ (Understood /\ user_text = DeluxeQuestion) =>
          /\ nlu_result.intent = "QUERY_PRICES"
          /\ \E k \in DOMAIN nlu_result.entities :
                /\ nlu_result.entities[k].type = "room_type"
                /\ nlu_result.entities[k].value = "deluxe"
    /\ (Returns /\ llm = <<>> /\ user_text = DeluxeQuestion) =>
          \A i \in DOMAIN rooms :
              (rooms[i].name = "Deluxe Room" /\ rooms[i].inventory > 0) =>
                  /\ response # None
                  /\ Shows(response.value,
                           <<BreakdownMark>> \o format_price(rooms[i].rack_rate))
                  /\ Shows(response.value,
                           <<" Direct Booking: ">> \o format_price(rooms[i].direct_rate))
                  /\ Shows(response.value,
                           <<" **You save ">>
                               \o format_price(rooms[i].rack_rate - rooms[i].direct_rate)
                               \o <<"** by booking directly! That's a ">>)

\* C13 happens: the question was answered from the seeded store
DeluxePriceWitness ==
    /\ pc = "done"
    /\ llm = <<>>
    /\ user_text = DeluxeQuestion
    /\ rooms = SeededRooms(5)
    /\ response # None
    /\ Shows(response.value, format_price(Whole(5000)))
    /\ Shows(response.value, <<"Rs", "4", ",", "250">>)
    /\ Shows(response.value, <<"Rs", "750">>)

\* C14: a rule-based QUERY_PRICES answer that is the breakdown of one room
\* never shows a direct rate above the rack rate, whatever rooms the store
\* holds.
BreakdownNeverAboveRack ==
    (/\ Returns
     /\ llm = <<>>
     /\ nlu_result.intent = "QUERY_PRICES"
     /\ response # None
     /\ Says(response.value, BreakdownMark)) =>
        \A i \in DOMAIN rooms :
            response.value = PriceBreakdown(RoomDict(rooms[i])) =>
                rooms[i].direct_rate <= rooms[i].rack_rate

\* a direct caller has made its first call of generate_response
CalledOnce == pc = "generated" /\ Len(outputs) = 1

\* the handler the specification gives an intent, applied to a context
HandlerOf(ctx) ==
    CASE ctx.intent = "QUERY_ROOMS" -> handle_room_query(ctx)
      [] ctx.intent = "QUERY_PRICES" -> handle_price_query(ctx)
      [] ctx.intent = "CHECK_AVAILABILITY" -> handle_availability(ctx)
      [] ctx.intent = "COMPARE_RATES" -> handle_rate_comparison(ctx)
      [] ctx.intent = "BOOK_ROOM" -> handle_booking(ctx)
      [] ctx.intent = "GREETING" -> handle_greeting(ctx)
      [] ctx.intent = "GOODBYE" -> handle_goodbye(ctx)
      [] ctx.intent = "HELP" -> handle_help(ctx)

\* C15: generate_response gives what the handler of the intent gives, for
\* each of the eight intents that have one; for UNKNOWN it gives the message
\* that lists what the assistant can do, whatever the entities, the query
\* and the room data, with no read of a store and the context left as it was.
DispatchIsTotal ==
    CalledOnce =>
        IF given.intent = "UNKNOWN"
        THEN /\ outputs[1] = [raised |-> FALSE, text |-> UnknownText]
             /\ get_rooms_calls = 0
             /\ context = given
        ELSE /\ given.intent \in Range(Intent)
             /\ outputs[1] = Output(HandlerOf(given))
             /\ context = HandlerOf(given).context
             /\ get_rooms_calls = HandlerOf(given).calls

\* C15 happens: a call with intent UNKNOWN, entities and room data
DispatchWitness ==
    /\ CalledOnce
    /\ given.intent = "UNKNOWN"
    /\ given.entities # <<>>
    /\ given.room_data # None
    /\ "rooms" \in failing
    /\ "faqs" \in failing
    /\ Says(outputs[1].text, UnknownText[1])

\* the canonical values the entity table gives a type; none for the types
\* whose patterns carry no value
Canonical(type) ==
    CASE type = "room_type" -> {"deluxe", "suite", "standard", "executive"}
      [] type = "booking_source" -> {"ota", "direct"}
      [] OTHER -> {}
\* the words a pattern without a canonical value matches
Literal(type) ==
    CASE type = "number" ->
             Digits \cup {"one", "two", "three", "four", "five", "six", "seven",
                          "eight", "nine", "ten"}
      [] type = "date" -> {"today", "tomorrow", "tonight"} \cup DateShaped
      [] OTHER -> {}
\* the texts of the two cases
LuxuryText == <<"I", "want", "a", "luxury", "room">>
NumberText == <<"book", "2", "luxury", "room", "tonight">>
\* an entity of a type and a value is in the result
HasEntity(type, value) ==
    \E k \in DOMAIN nlu_result.entities :
        /\ nlu_result.entities[k].type = type
        /\ nlu_result.entities[k].value = value

\* C16: an entity of a pattern that carries a canonical value has that
\* value, whatever word was matched ("I want a luxury room" gives room_type
\* deluxe and nothing else); an entity of a pattern without one has as its
\* value the word of the text that matched.
EntitiesAreCanonical ==
    Understood =>
        /\ \A k \in DOMAIN nlu_result.entities :
              IF Canonical(nlu_result.entities[k].type) # {}
              THEN nlu_result.entities[k].value
                       \in Canonical(nlu_result.entities[k].type)
              ELSE /\ nlu_result.entities[k].value
                          \in Literal(nlu_result.entities[k].type)
                   /\ \E i \in DOMAIN text_lower :
                          text_lower[i] = nlu_result.entities[k].value
        /\ \A i \in DOMAIN text_lower :
              /\ text_lower[i] \in Literal("number") =>
                     HasEntity("number", text_lower[i])
              /\ text_lower[i] \in Literal("date") =>
                     HasEntity("date", text_lower[i])
              /\ (/\ text_lower[i] \in {"luxury", "premium"}
                  /\ i < Len(text_lower)
                  /\ text_lower[i + 1] = "room") => HasEntity("room_type", "deluxe")
        /\ user_text = LuxuryText =>
              nlu_result.entities =
                  << [type |-> "room_type", value |-> "deluxe",
                      confidence |-> Ratio(9, 10)] >>

\* C16 happens: a text with a word of a canonical pattern and words of
\* patterns without a canonical value has been classified
EntitiesAreCanonicalWitness ==
    /\ Understood
    /\ user_text = NumberText
    /\ HasEntity("room_type", "deluxe")
    /\ HasEntity("number", "2")
    /\ HasEntity("date", "tonight")

\* the patterns of an intent that are found in the text, and all of them
Matches(intent) == CountTrue(intent_patterns(intent, text_lower))
Patterns(intent) == Len(intent_patterns(intent, text_lower))
\* the intents that have patterns
Known == Range(Intent) \ {"UNKNOWN"}

\* C17: the intent returned has at least one of its patterns in the text,
\* its confidence is matches / patterns, and no intent has a greater
\* quotient; UNKNOWN with 0.0 is returned exactly when no pattern of any
\* intent is in the text.
ScoreIsFractionOfPatterns ==
    Understood =>
        IF \A j \in Known : Matches(j) = 0
        THEN /\ nlu_result.intent = "UNKNOWN"
             /\ nlu_result.confidence = [num |-> 0, den |-> 1]
        ELSE /\ nlu_result.intent \in Known
             /\ Matches(nlu_result.intent) > 0
             /\ nlu_result.confidence.num * Patterns(nlu_result.intent)
                    = Matches(nlu_result.intent) * nlu_result.confidence.den
             /\ \A j \in Known :
                    Matches(j) * Patterns(nlu_result.intent)
                        <= Matches(nlu_result.intent) * Patterns(j)

\* C17 happens: two intents have patterns in the text, and the one with
\* the greater fraction of its patterns is returned
ScoreWitness ==
    /\ Understood
    /\ nlu_result.intent = "QUERY_ROOMS"
    /\ Matches("QUERY_ROOMS") = 1
    /\ Matches("HELP") = 1
    /\ nlu_result.confidence.num = 1
    /\ nlu_result.confidence.den = 6

\* the room types a single word names, and the first of them in a text
RoomTypeWords == {"deluxe", "suite", "standard", "executive"}
RoomMentions(t) == SelectSeq(t, LAMBDA w : w \in RoomTypeWords)
\* the room_type entities of a result, in the order of the list
RoomTypeEntities(entities) == SelectSeq(entities, LAMBDA e : e.type = "room_type")
\* the words of the natural variations, whose value is not the word
Variations == {"luxury", "premium", "basic", "regular"}

\* C18: the entities are in the order of their mentions in the text: when
\* the text names room types by their own words, the first room_type
\* entity is the one of the room type named first.
EarlierMentionComesFirst ==
    (/\ Understood
     /\ RoomMentions(text_lower) # <<>>
     /\ \A i \in 1..Len(text_lower) : text_lower[i] \notin Variations)
        => Head(RoomTypeEntities(nlu_result.entities)).value
               = Head(RoomMentions(text_lower))

\* the places of a text where a pattern of the table is found; two matches
\* of one pattern never overlap, as no word is in both sets of a pattern
\* of two words
MatchesOf(t, row) == {i \in 1..Len(t) : At(t, i, row[2])}
\* the matches of the rows 1..r of the table, counted row by row
RECURSIVE MatchTotal(_, _)
MatchTotal(t, r) ==
    IF r = 0 THEN 0
    ELSE MatchTotal(t, r - 1) + Cardinality(MatchesOf(t, entity_patterns[r]))
\* the matches of the patterns of one entity type
RECURSIVE MatchTotalOf(_, _, _)
MatchTotalOf(type, t, r) ==
    IF r = 0 THEN 0
    ELSE MatchTotalOf(type, t, r - 1)
         + IF entity_patterns[r][1] = type
           THEN Cardinality(MatchesOf(t, entity_patterns[r]))
           ELSE 0
EntityTypes == {"room_type", "number", "date", "booking_source"}

\* C19: there is one entity for each match of each pattern of the table:
\* the list is as long as the matches of all patterns counted together,
\* type by type, each entity has confidence 0.9, and nothing in it depends
\* on the intent recognized.
OneEntityPerMatch ==
    Understood =>
        /\ Len(nlu_result.entities) = MatchTotal(text_lower, Len(entity_patterns))
        /\ \A type \in EntityTypes :
               Len(SelectSeq(nlu_result.entities, LAMBDA e : e.type = type))
                   = MatchTotalOf(type, text_lower, Len(entity_patterns))
        /\ \A k \in DOMAIN nlu_result.entities :
               /\ nlu_result.entities[k].type \in EntityTypes
               /\ nlu_result.entities[k].confidence = [num |-> 9, den |-> 10]

\* C19 happens: "deluxe room" is a match of two patterns, and both
\* entities are in the list, equal as they are
OneEntityPerMatchWitness ==
    /\ Understood
    /\ text_lower = <<"book", "a", "suite", "room", "a", "deluxe", "room">>
    /\ Len(nlu_result.entities) = 4
    /\ nlu_result.entities[1] = nlu_result.entities[2]
    /\ nlu_result.entities[3] = nlu_result.entities[4]

\* the query _handle_help looks at, in a direct call
query_lower == Lower(given.user_query)
\* the categories with a keyword in the query, by their place in the table
KeywordCategories ==
    {k \in DOMAIN faq_keywords : any_keyword(query_lower, faq_keywords[k])}
\* the rows of the FAQ table a search for the term of category k selects
Holding(k) == {i \in DOMAIN faqs : faq_keywords[k][1] \in faqs[i].mentions}
\* the first row of that search: none has a higher priority, and none of
\* the same priority is before it in the table
FirstHolding(k) ==
    CHOOSE i \in Holding(k) :
        \A j \in Holding(k) :
            \/ faqs[j].priority < faqs[i].priority
            \/ faqs[j].priority = faqs[i].priority /\ i <= j
Least(S) == CHOOSE k \in S : \A j \in S : k <= j
\* a question, its answer and the follow-up prompt
FaqText(row) ==
    <<"**", row.question, "** ", row.answer, " Need help with something else?">>
HelpCalled == CalledOnce /\ given.intent = "HELP"

\* C20 as stated: the first category with a keyword in the query is the
\* only one looked up: its first FAQ is the response, and the list of what
\* the assistant can do is the response when no category has a keyword in
\* the query or that one lookup finds nothing.
FirstCategoryDecides ==
    (HelpCalled /\ "faqs" \notin failing) =>
        IF KeywordCategories = {} \/ Holding(Least(KeywordCategories)) = {}
        THEN outputs[1] = [raised |-> FALSE, text |-> HelpTemplate]
        ELSE outputs[1] = [raised |-> FALSE,
                           text |-> FaqText(faqs[FirstHolding(Least(KeywordCategories))])]

\* the categories with a keyword in the query whose lookup finds an FAQ
Answerable == {k \in KeywordCategories : Holding(k) # {}}

\* C20, amended: the categories with a keyword in the query are looked up
\* in the declared order until a lookup finds an FAQ, and the first FAQ of
\* that lookup is the response; the list of what the assistant can do is
\* the response when no category has a keyword in the query or none of
\* these lookups finds an FAQ; a lookup that fails ends the call with its
\* error.
FirstAnswerableCategoryDecides ==
    HelpCalled =>
        IF "faqs" \in failing /\ KeywordCategories # {}
        THEN outputs[1].raised
        ELSE IF Answerable = {}
        THEN outputs[1] = [raised |-> FALSE, text |-> HelpTemplate]
        ELSE outputs[1] = [raised |-> FALSE,
                           text |-> FaqText(faqs[FirstHolding(Least(Answerable))])]

\* C20 happens: the query has a keyword of WiFi and one of parking, the
\* store has no FAQ on WiFi, and the answer is the FAQ on parking
FirstAnswerableWitness ==
    /\ HelpCalled
    /\ "faqs" \notin failing
    /\ KeywordCategories = {2, 4}
    /\ Holding(2) = {}
    /\ Says(outputs[1].text, "Do you have parking facilities?")

\* the rooms a handler works on in a direct call: the ones the caller gave,
\* or the ones of the store when the caller gave none
Listed ==
    IF Falsy(given.room_data) THEN get_rooms.value ELSE given.room_data.value
\* the room type asked for, if any: the entities of type room_type
Asked == room_type_entities(given)
\* the rooms left by the filter on the room type asked for
Remaining ==
    IF Asked # <<>> THEN matching_rooms(Listed, Asked[1].value) ELSE Listed
\* a direct call of the handler of an intent has returned a text
Answered(intent) == CalledOnce /\ given.intent = intent /\ ~outputs[1].raised

\* C21: the answer to QUERY_ROOMS goes by the rooms left after the filter
\* on the room type: the pitch of the room when one is left, the apology
\* when none is left, the comparison of all of them when two or more are.
RoomQueryGoesByRemaining ==
    Answered("QUERY_ROOMS") =>
        outputs[1].text =
            IF Len(Remaining) = 1 THEN RoomPitch(Remaining[1])
            ELSE IF Len(Remaining) = 0 THEN NoRoomsText
            ELSE RoomComparison(Remaining)

\* the rooms the hotel has, for a direct call: the ones the caller gave, or
\* every row of the store, sold out or not, when the caller gave none
HotelRooms ==
    IF Falsy(given.room_data)
    THEN [i \in DOMAIN rooms |-> RoomDict(OrderByRate(rooms)[i])]
    ELSE given.room_data.value
\* the rooms of the type asked for
HotelMatching == matching_rooms(HotelRooms, Asked[1].value)
\* the text presents the room as one that can be had
PresentsAsAvailable(text, room) ==
    \/ Shows(text, <<AvailableHead, ToString(room.inventory), " ", room.name>>)
    \/ Shows(text, <<"- ", room.name, ": ">>)

\* C22: the answer to CHECK_AVAILABILITY goes by the inventory: for a room
\* type asked for, the count and the price of the matching room when it has
\* inventory, the apology when it is sold out; with no room type asked for,
\* the list of exactly the rooms with inventory, or the message that the
\* hotel is fully booked; and no room with inventory 0 is presented as
\* available.
AvailabilityGoesByInventory ==
    Answered("CHECK_AVAILABILITY") =>
        /\ (Asked # <<>> /\ HotelMatching # <<>>) =>
               outputs[1].text =
                   IF HotelMatching[1].inventory > 0
                   THEN RoomAvailable(HotelMatching[1])
                   ELSE <<"Sorry, ", HotelMatching[1].name, SoldOutTail>>
        /\ Asked = <<>> =>
               outputs[1].text =
                   GeneralAvailability(SelectSeq(HotelRooms, LAMBDA r : r.inventory > 0))
        /\ \A i \in DOMAIN HotelRooms :
               HotelRooms[i].inventory = 0 => ~PresentsAsAvailable(outputs[1].text, HotelRooms[i])

\* the rooms of the type asked for, among the rooms the handler works on
ListedMatching == matching_rooms(Listed, Asked[1].value)
\* savings and discount percentage of a room, from its own two rates
DerivedSavings(room) == room.rack_rate - room.direct_rate
DerivedPercentage(room) == DiscountPercentage(DerivedSavings(room), room.rack_rate)

\* C23: the savings and the discount percentage a response shows for a
\* room are those derived from the rates of the room: in the breakdown of
\* QUERY_PRICES the amount saved is rack_rate - direct_rate and the
\* percentage restated is round(savings / rack_rate * 100), and the amount
\* saved in the answer of CHECK_AVAILABILITY is rack_rate - direct_rate.
ShownFiguresAreDerived ==
    /\ (Answered("QUERY_PRICES") /\ Asked # <<>> /\ ListedMatching # <<>>) =>
           /\ Shows(outputs[1].text,
                    <<" **You save ">> \o format_price(DerivedSavings(ListedMatching[1])))
           /\ Shows(outputs[1].text,
                    <<"** by booking directly! That's a ",
                      ToString(DerivedPercentage(ListedMatching[1])),
                      "% discount compared to Booking.com, Expedia, etc.">>)
    /\ (/\ Answered("CHECK_AVAILABILITY")
        /\ Asked # <<>>
        /\ ListedMatching # <<>>
        /\ ListedMatching[1].inventory > 0) =>
           Shows(outputs[1].text,
                 <<" (Save ">> \o format_price(DerivedSavings(ListedMatching[1])))

\* the four intents whose turn begins with a read of the room store
StoreIntents == {"QUERY_ROOMS", "QUERY_PRICES", "CHECK_AVAILABILITY", "COMPARE_RATES"}
\* the record of the turn: its text, and the intent and confidence of its
\* NLUResult
TurnRecord ==
    [user_query |-> user_text,
     intent |-> nlu_result.intent,
     confidence |-> nlu_result.confidence]

\* C24: the steps of a turn come in one order: the classification, then the
\* read of the room store, made for the four store intents and for no
\* other, then the generation of the response, then the log.  The log is
\* written in one step only, the last one before the return, with the
\* response fixed, and what it records is the intent and the confidence of
\* the NLUResult of the turn, on the rule-based path and on the path of the
\* language model.
TurnIsSequenced ==
    [][/\ pc = "nlu" =>
            /\ pc' = "fetch"
            /\ get_rooms_calls' = get_rooms_calls
       /\ pc = "fetch" =>
            /\ pc' \in {"generate", "raised"}
            /\ nlu_result' = nlu_result
            /\ get_rooms_calls' =
                  IF nlu_result.intent \in StoreIntents
                  THEN get_rooms_calls + 1 ELSE get_rooms_calls
            /\ nlu_result.intent \notin StoreIntents => room_data' = room_data
       /\ pc \in {"generate", "final"} =>
            /\ pc' \in {"final", "log", "raised", "blocked"}
            /\ nlu_result' = nlu_result
            /\ room_data' = room_data
       /\ pc = "log" =>
            /\ pc' = "done"
            /\ response' = response
            /\ query_logs' \in {query_logs, Append(query_logs, TurnRecord)}
       /\ pc # "log" => query_logs' = query_logs
       /\ pc' = "done" => pc = "log"
       /\ pc' = "log" => pc \in {"generate", "final"}
      ]_vars

\* C24 happens: a turn on the path of the language model, for a store
\* intent, has returned, and its one record has the intent of the turn
TurnIsSequencedWitness ==
    /\ pc = "done"
    /\ llm # <<>>
    /\ nlu_result.intent \in StoreIntents
    /\ get_rooms_calls >= 1
    /\ query_logs = <<TurnRecord>>

\* the pieces of a text that open a bullet of a list
Bullets(text) == SelectSeq(text, LAMBDA piece : piece = "* **")

\* C25: the answer to QUERY_PRICES is the breakdown of the first room that
\* matches the room type asked for: its name, its rack rate, its direct
\* rate and rack_rate - direct_rate as the saving; with no room type asked
\* for, or none that matches a room, it is the price list, with one line
\* for every room of the data and no other line.
PriceQueryGoesByMatch ==
    Answered("QUERY_PRICES") =>
        IF Asked # <<>> /\ ListedMatching # <<>>
        THEN /\ SubSeq(outputs[1].text, 1, 3)
                   = <<"**", ListedMatching[1].name, BreakdownMark>>
             /\ Shows(outputs[1].text,
                      <<BreakdownMark>> \o format_price(ListedMatching[1].rack_rate)
                          \o <<" Direct Booking: ">>
                          \o format_price(ListedMatching[1].direct_rate)
                          \o <<" **You save ">>
                          \o format_price(ListedMatching[1].rack_rate
                                              - ListedMatching[1].direct_rate))
             /\ Bullets(outputs[1].text) = <<>>
        ELSE /\ SubSeq(outputs[1].text, 1, 1) = PriceListHead
             /\ \A i \in DOMAIN Listed : Shows(outputs[1].text, PriceLine(Listed[i]))
             /\ Len(Bullets(outputs[1].text)) = Len(Listed)

\* C25 happens: a room type is asked for that none of the two rooms of the
\* data has, and the answer is the price list
PriceQueryWitness ==
    /\ Answered("QUERY_PRICES")
    /\ Asked # <<>>
    /\ ListedMatching = <<>>
    /\ Len(Listed) = 2
    /\ Len(Bullets(outputs[1].text)) = 2

\* the savings of all rooms of a list together
RECURSIVE TotalSavings(_)
TotalSavings(rows) ==
    IF rows = <<>> THEN 0
    ELSE (Head(rows).rack_rate - Head(rows).direct_rate) + TotalSavings(Tail(rows))
\* the pieces of a text that open a group of the rate comparison
Groups(text) == SelectSeq(text, LAMBDA piece : piece = ":** - Booking.com/Expedia: ")

\* C26: the answer to COMPARE_RATES has one group of OTA rate, direct rate
\* and rack_rate - direct_rate for every room of the data and for no other,
\* and, for two rooms or more, it has the savings of all rooms together,
\* somewhere in the text.
ComparisonHasTotalSavings ==
    Answered("COMPARE_RATES") =>
        /\ \A i \in DOMAIN Listed : Shows(outputs[1].text, ComparisonLines(Listed[i]))
        /\ Len(Groups(outputs[1].text)) = Len(Listed)
        /\ Len(Listed) >= 2 =>
               Shows(outputs[1].text, format_price(TotalSavings(Listed)))

\* the rooms of the type asked for that can be had
AvailableMatching == SelectSeq(ListedMatching, LAMBDA r : r.inventory > 0)

\* C27: the answer to BOOK_ROOM is the booking instructions for the room
\* of the type asked for, with its direct price and the discount code, when
\* a room type is asked for and a room of that type is available; in every
\* other case it is the list of all rooms with their prices and the
\* question which one to book.
BookingGoesByAvailableMatch ==
    Answered("BOOK_ROOM") =>
        IF Asked # <<>> /\ AvailableMatching # <<>>
        THEN outputs[1].text = BookingInstructions(AvailableMatching[1])
        ELSE /\ SubSeq(outputs[1].text, 1, 1) = BookingListHead
             /\ \A i \in DOMAIN Listed : Shows(outputs[1].text, BookingLine(Listed[i]))
             /\ Len(Bullets(outputs[1].text)) = Len(Listed)

\* the turn is past the choice of its path
PathTaken == pc \in {"final", "blocked", "log", "done"}
\* the turn took the path of the language model: it called the model
ModelPath == llm # <<>>

\* C28: use_ai=True takes the path of the language model and use_ai=False
\* the rule-based path; use_ai=None takes the path of the language model
\* when a client is configured (AI enabled, with a key) and the rule-based
\* path otherwise; the model is never called without a client.
PathIsSelected ==
    PathTaken =>
        /\ ~client => ~ModelPath
        /\ client =>
              (ModelPath <=> use_ai \in {"True", "None"})

\* the elements of a are elements of b, in the order of b
RECURSIVE IsSubList(_, _)
IsSubList(a, b) ==
    IF a = <<>> THEN TRUE
    ELSE IF b = <<>> THEN FALSE
    ELSE IF Head(a) = Head(b) THEN IsSubList(Tail(a), Tail(b))
    ELSE IsSubList(a, Tail(b))
\* the context as it is when generate_response is called, in the step of
\* the call: the one the caller builds, or the one it kept from the last call
Before == IF pc = "idle" THEN given' ELSE context
\* the list the handler starts from: the one of the context, or the one
\* of the store when the context has none or an empty one
Source(ctx) == IF Falsy(ctx.room_data) THEN get_rooms.value ELSE ctx.room_data.value

\* C29: a call of generate_response leaves intent, entities and user_query
\* of the context as they were.  room_data is left as it was, or it is
\* filled from the store when it was absent or empty, by the handler of a
\* room intent, or, in the handler of QUERY_ROOMS with a room type asked
\* for, it is the rooms of the list whose name has the type; it is always
\* a sub-list of the list before the call or of the list of the store.
GenerateKeepsFrame ==
    [][outputs' # outputs =>
          /\ context'.intent = Before.intent
          /\ context'.entities = Before.entities
          /\ context'.user_query = Before.user_query
          /\ \/ context'.room_data = Before.room_data
             \/ /\ Falsy(Before.room_data)
                /\ Before.intent \in RoomIntents
                /\ ~get_rooms.raised
                /\ context'.room_data = Some(get_rooms.value)
             \/ /\ Before.intent = "QUERY_ROOMS"
                /\ room_type_entities(Before) # <<>>
                /\ Falsy(Before.room_data) => ~get_rooms.raised
                /\ context'.room_data =
                       Some(matching_rooms(Source(Before),
                                           room_type_entities(Before)[1].value))
          /\ context'.room_data # None =>
                \/ context'.room_data = Before.room_data
                \/ IsSubList(context'.room_data.value, Source(Before))
      ]_vars

\* C29 happens: a call for QUERY_ROOMS with a room type, on a context with
\* two rooms, has left fewer rooms in the context
GenerateKeepsFrameWitness ==
    /\ CalledOnce
    /\ given.intent = "QUERY_ROOMS"
    /\ Asked # <<>>
    /\ given.room_data # None
    /\ Len(given.room_data.value) = 2
    /\ context.room_data # given.room_data
    /\ context.entities = given.entities

\* the handlers that filter the rooms by the room type asked for
FilteringIntents == {"QUERY_ROOMS", "QUERY_PRICES", "CHECK_AVAILABILITY", "BOOK_ROOM"}
\* the entities of the call without all but the first room_type entity
FirstTypeOnly == IF Asked = <<>> THEN <<>> ELSE <<Asked[1]>>

\* C30: the four handlers that filter by room type go by the first
\* room_type entity of the list alone: the call gives what it gives for the
\* list that has this entity and nothing else, so that later room_type
\* entities and entities of other types, added, removed or moved, change
\* nothing of the response.
OnlyFirstRoomTypeCounts ==
    (CalledOnce /\ given.intent \in FilteringIntents) =>
        outputs[1] = Output(generate_response([given EXCEPT !.entities = FirstTypeOnly]))

\* C30 happens: the list has two room_type entities of different values,
\* and the answer is about the room of the first
OnlyFirstRoomTypeWitness ==
    /\ Answered("QUERY_PRICES")
    /\ Len(Asked) = 2
    /\ Asked[1].value # Asked[2].value
    /\ Len(given.entities) = 3
    /\ matching_rooms(Listed, Asked[2].value) # <<>>
    /\ ListedMatching # <<>>
    /\ SubSeq(outputs[1].text, 1, 2) = <<"**", "Standard Room">>

====
